---- MODULE Spec2Model ----
(***************************************************************************)
(* Model of backend/server.js: the POST /api/analyze handler and the       *)
(* helpers it calls (extractVideoId, getYouTubeVideoData, getTranscript,   *)
(* callLLM, extractJson, analyzeCoverage).                                 *)
(*                                                                         *)
(* JavaScript values are modelled as records tagged by a field t.  URL and *)
(* provider strings are tuples of one-character strings.  The text an LLM  *)
(* returns is a tuple of lexical tokens (fence markers, whitespace,        *)
(* brackets, commas, prose and JSON literals).                             *)
(***************************************************************************)
EXTENDS Integers, Sequences, FiniteSets, TLC

\* ------------------------------------------------------------------------
\* Bounds of the model
\* ------------------------------------------------------------------------
\* longest customSubtopics array a request carries
MaxSubtopics == 2
\* most items in an array the LLM returns
MaxItems == 2
\* longest token sequence explored for extractJson on its own
MaxLen == 3

\* ------------------------------------------------------------------------
\* Generic helpers
\* ------------------------------------------------------------------------
SeqsUpTo(S, n) == UNION { [1..k -> S] : k \in 0..n }

Max(S) == CHOOSE x \in S : \A y \in S : y <= x

Min2(a, b) == IF a < b THEN a ELSE b

Max2(a, b) == IF a > b THEN a ELSE b

RECURSIVE SumSeq(_)
SumSeq(s) == IF s = <<>> THEN 0 ELSE Head(s) + SumSeq(Tail(s))

\* ------------------------------------------------------------------------
\* extractVideoId (server.js 25-29)
\* regExp = /^.*((youtu.be\/)|(v\/)|(\/u\/\w\/)|(embed\/)|(watch\?))\??v?=?([^#&?]*).*/
\* ------------------------------------------------------------------------
WordChars == {"a","b","c","d","e","f","g","h","i","j","k","l","m","n","o",
              "p","q","r","s","t","u","v","w","x","y","z","0","1","2","3",
              "4","5","6","7","8","9","_"}

\* s has the literal characters cs starting at index i
Lit(s, i, cs) == /\ i + Len(cs) - 1 <= Len(s)
                 /\ \A k \in 1..Len(cs) : s[i + k - 1] = cs[k]

\* length of the alternative of group 1 that matches at index i, 0 if none;
\* the alternatives start with different characters, so at most one matches
MarkerLen(s, i) ==
    IF /\ i + 8 <= Len(s)
       /\ Lit(s, i, <<"y","o","u","t","u">>)
       /\ Lit(s, i + 6, <<"b","e","/">>)                      THEN 9
    ELSE IF Lit(s, i, <<"v","/">>)                             THEN 2
    ELSE IF /\ i + 4 <= Len(s)
            /\ Lit(s, i, <<"/","u","/">>)
            /\ s[i + 3] \in WordChars
            /\ s[i + 4] = "/"                                  THEN 5
    ELSE IF Lit(s, i, <<"e","m","b","e","d","/">>)             THEN 6
    ELSE IF Lit(s, i, <<"w","a","t","c","h","?">>)             THEN 6
    ELSE 0

\* index after an optional character c at index p
SkipOpt(s, p, c) == IF p <= Len(s) /\ s[p] = c THEN p + 1 ELSE p

\* the longest run of characters outside [#&?] starting at index p
RECURSIVE RunFrom(_, _)
RunFrom(s, p) ==
    IF p > Len(s) \/ s[p] \in {"#", "&", "?"} THEN <<>>
    ELSE <<s[p]>> \o RunFrom(s, p + 1)

NullId == <<>>

\* match[7]: the greedy ^.* leaves the last index at which a marker matches
Group7(s) ==
    LET P == { i \in 1..Len(s) : MarkerLen(s, i) > 0 }
        i == Max(P)
        p0 == i + MarkerLen(s, i)
        p1 == SkipOpt(s, p0, "?")
        p2 == SkipOpt(s, p1, "v")
        p3 == SkipOpt(s, p2, "=")
    IN  RunFrom(s, p3)

HasMatch(s) == \E i \in 1..Len(s) : MarkerLen(s, i) > 0

\* mutant: the length of the identifier is not checked
extractVideoIdAnyLength(s) ==
    IF HasMatch(s) THEN Group7(s) ELSE NullId

extractVideoId(s) ==
    IF HasMatch(s) /\ Len(Group7(s)) = 11 THEN Group7(s) ELSE NullId

\* ------------------------------------------------------------------------
\* JavaScript / JSON values
\* ------------------------------------------------------------------------
Undefined == [t |-> "undefined"]

JNull == [t |-> "null"]

\* a number, kept in tenths so that fractional scores are representable
JNum(tenths) == [t |-> "num", n |-> tenths]

\* a string, as its tuple of characters
JStr(cs) == [t |-> "str", s |-> cs]

JArr(items) == [t |-> "arr", items |-> items]

\* an object as the LLM is asked to produce it; a field it omits is Undefined
JObj(sub, score, ev) ==
    [t |-> "obj", subtopic |-> sub, coverageScore |-> score, evidence |-> ev]

EmptyArr == JArr(<<>>)

\* ------------------------------------------------------------------------
\* Text the LLM returns: a tuple of lexemes
\* ------------------------------------------------------------------------
TFenceJson == [k |-> "fencejson"]    \* ```json in any letter case
TFence     == [k |-> "fence"]        \* ```
TWs        == [k |-> "ws"]           \* a run of white space or line breaks
TLb        == [k |-> "lbrack"]       \* [
TRb        == [k |-> "rbrack"]       \* ]
TComma     == [k |-> "comma"]        \* ,
TJunk      == [k |-> "junk"]         \* prose without brackets or braces
TLit(v)    == [k |-> "lit", v |-> v] \* the text of an object, string or null

IsObjTok(tok) == tok.k = "lit" /\ tok.v.t = "obj"

RECURSIVE Without(_, _)
Without(ts, kind) ==
    IF ts = <<>> THEN <<>>
    ELSE IF Head(ts).k = kind THEN Without(Tail(ts), kind)
    ELSE <<Head(ts)>> \o Without(Tail(ts), kind)

\* String.prototype.trim
RECURSIVE TrimLeft(_)
TrimLeft(ts) ==
    IF ts # <<>> /\ Head(ts).k = "ws" THEN TrimLeft(Tail(ts)) ELSE ts

RECURSIVE TrimRight(_)
TrimRight(ts) ==
    IF ts # <<>> /\ ts[Len(ts)].k = "ws"
    THEN TrimRight(SubSeq(ts, 1, Len(ts) - 1)) ELSE ts

Trim(ts) == TrimRight(TrimLeft(ts))

\* ------------------------------------------------------------------------
\* JSON.parse on lexemes: value ::= literal | [ ] | [ value (, value)* ]
\* ------------------------------------------------------------------------
ParseFail == [ok |-> FALSE, v |-> JNull, next |-> 0]

RECURSIVE ParseValue(_, _)
RECURSIVE ParseElems(_, _, _)
ParseValue(ts, i) ==
    IF i > Len(ts) THEN ParseFail
    ELSE IF ts[i].k = "lit" THEN [ok |-> TRUE, v |-> ts[i].v, next |-> i + 1]
    ELSE IF ts[i].k = "lbrack" THEN
        IF i + 1 <= Len(ts) /\ ts[i + 1].k = "rbrack"
        THEN [ok |-> TRUE, v |-> EmptyArr, next |-> i + 2]
        ELSE ParseElems(ts, i + 1, <<>>)
    ELSE ParseFail

ParseElems(ts, i, acc) ==
    LET r == ParseValue(ts, i)
    IN  IF ~r.ok \/ r.next > Len(ts) THEN ParseFail
        ELSE IF ts[r.next].k = "comma"
             THEN ParseElems(ts, r.next + 1, Append(acc, r.v))
        ELSE IF ts[r.next].k = "rbrack"
             THEN [ok |-> TRUE, v |-> JArr(Append(acc, r.v)), next |-> r.next + 1]
        ELSE ParseFail

\* [ok |-> FALSE] stands for the SyntaxError JSON.parse throws
JSONparse(text) ==
    LET ts == Without(text, "ws")
        r  == ParseValue(ts, 1)
    IN  IF r.ok /\ r.next = Len(ts) + 1
        THEN [ok |-> TRUE, v |-> r.v]
        ELSE [ok |-> FALSE, v |-> JNull]

\* ------------------------------------------------------------------------
\* extractJson (server.js 132-141)
\* ------------------------------------------------------------------------
\* mutant: only the ```json marker is stripped
CleanedJsonOnly(responseText) ==
    Trim(Without(responseText, "fencejson"))

\* responseText.replace(/```json/gi, "").replace(/```/g, "").trim()
Cleaned(responseText) ==
    Trim(Without(Without(responseText, "fencejson"), "fence"))

\* where /\{[\s\S]*\}|\[[\s\S]*\]/ can start matching
MatchStarts(ts) ==
    { i \in 1..Len(ts) :
        \/ IsObjTok(ts[i])
        \/ ts[i].k = "lbrack" /\ \E j \in (i + 1)..Len(ts) : ts[j].k = "rbrack" }

\* match[0]: leftmost start, greedy to the last closing brace or bracket
RegexMatch(ts) ==
    LET i == CHOOSE x \in MatchStarts(ts) : \A y \in MatchStarts(ts) : x <= y
        j == IF IsObjTok(ts[i])
             THEN Max({ x \in i..Len(ts) : IsObjTok(ts[x]) })
             ELSE Max({ x \in i..Len(ts) : ts[x].k = "rbrack" })
    IN  SubSeq(ts, i, j)

Returned(v) == [threw |-> FALSE, v |-> v]

Thrown == [threw |-> TRUE, v |-> Undefined]

extractJson(responseText) ==
    IF responseText = <<>> THEN Returned(EmptyArr)
    ELSE LET cleaned == Cleaned(responseText)
             direct  == JSONparse(cleaned)
         IN  IF cleaned = <<>> THEN Returned(EmptyArr)
             ELSE IF direct.ok THEN Returned(direct.v)
             ELSE IF MatchStarts(cleaned) # {}
                  THEN LET sub == JSONparse(RegexMatch(cleaned))
                       IN  IF sub.ok THEN Returned(sub.v) ELSE Returned(EmptyArr)
             ELSE Returned(EmptyArr)

\* ------------------------------------------------------------------------
\* Numbers: an integer, or NaN
\* ------------------------------------------------------------------------
Num(v) == [nan |-> FALSE, v |-> v]

NaN == [nan |-> TRUE, v |-> 0]

Digits == <<"0","1","2","3","4","5","6","7","8","9">>

IsDigit(c) == \E d \in 1..10 : Digits[d] = c

DigitVal(c) == (CHOOSE d \in 1..10 : Digits[d] = c) - 1

RECURSIVE SkipBlanks(_)
SkipBlanks(cs) ==
    IF cs # <<>> /\ Head(cs) = " " THEN SkipBlanks(Tail(cs)) ELSE cs

\* the value of the leading run of digits of cs, given the value so far
RECURSIVE LeadingDigits(_, _)
LeadingDigits(cs, acc) ==
    IF cs # <<>> /\ IsDigit(Head(cs))
    THEN LeadingDigits(Tail(cs), 10 * acc + DigitVal(Head(cs)))
    ELSE acc

\* parseInt of a string: blanks, an optional sign, then the leading digits
StrParseInt(cs) ==
    LET s1   == SkipBlanks(cs)
        neg  == s1 # <<>> /\ Head(s1) = "-"
        s2   == IF s1 # <<>> /\ Head(s1) \in {"-", "+"} THEN Tail(s1) ELSE s1
    IN  IF s2 = <<>> \/ ~IsDigit(Head(s2)) THEN NaN
        ELSE IF neg THEN Num(0 - LeadingDigits(s2, 0))
        ELSE Num(LeadingDigits(s2, 0))

\* parseInt(x): x is turned into a string first.  A number (in tenths here)
\* prints as its decimal expansion, whose integer part is read back; undefined
\* and null print as words, which hold no digits.
parseInt(x) ==
    IF x.t = "num"
    THEN IF x.n >= 0 THEN Num(x.n \div 10) ELSE Num(0 - ((0 - x.n) \div 10))
    ELSE IF x.t = "str" THEN StrParseInt(x.s)
    ELSE NaN

\* n || 0
OrZero(n) == IF n.nan THEN 0 ELSE n.v

\* a value is truthy
Truthy(x) ==
    \/ x.t = "str" /\ x.s # <<>>
    \/ x.t = "num" /\ x.n # 0
    \/ x.t \in {"arr", "obj"}

\* mutant: Math.floor in place of Math.round
MathFloorDiv(sum, n) ==
    IF n = 0 THEN NaN ELSE Num(sum \div n)

\* Math.round(sum / n) for sum >= 0: 0/0 is NaN, a tie rounds up
MathRoundDiv(sum, n) ==
    IF n = 0 THEN NaN ELSE Num((2 * sum + n) \div (2 * n))

\* ------------------------------------------------------------------------
\* analyzeCoverage (server.js 144-196), after the prompt is built
\* ------------------------------------------------------------------------
\* "No evidence provided."
NoEvidence ==
    JStr(<<"N","o"," ","e","v","i","d","e","n","c","e"," ",
           "p","r","o","v","i","d","e","d",".">>)

\* "Failed to generate coverage analysis."
FailedEvidence ==
    JStr(<<"F","a","i","l","e","d"," ","t","o"," ","g","e","n","e","r","a","t","e"," ",
           "c","o","v","e","r","a","g","e"," ","a","n","a","l","y","s","i","s",".">>)

\* item.f : a property of an object, undefined on a string
Field(item, f) ==
    IF item.t = "obj"
    THEN CASE f = "subtopic"      -> item.subtopic
           [] f = "coverageScore" -> item.coverageScore
           [] f = "evidence"      -> item.evidence
    ELSE Undefined

\* mutant: the score is not clamped
NormalizeItemNoClamp(item) ==
    [ subtopic      |-> Field(item, "subtopic"),
      coverageScore |-> OrZero(parseInt(Field(item, "coverageScore"))),
      covered       |-> OrZero(parseInt(Field(item, "coverageScore"))) >= 50,
      evidence      |-> IF Truthy(Field(item, "evidence"))
                        THEN Field(item, "evidence") ELSE NoEvidence ]

\* the callback of subtopicAnalysis.map (server.js 167-172)
NormalizeItem(item) ==
    [ subtopic      |-> Field(item, "subtopic"),
      coverageScore |-> Min2(Max2(OrZero(parseInt(Field(item, "coverageScore"))), 0), 100),
      covered       |-> OrZero(parseInt(Field(item, "coverageScore"))) >= 50,
      evidence      |-> IF Truthy(Field(item, "evidence"))
                        THEN Field(item, "evidence") ELSE NoEvidence ]

Scores(items) == [i \in 1..Len(items) |-> items[i].coverageScore]

\* the report of the try block (server.js 174-182)
SuccessReport(normalized) ==
    [ overallScore     |-> MathRoundDiv(SumSeq(Scores(normalized)), Len(normalized)),
      subtopicAnalysis |-> normalized,
      summary          |-> "Overall coverage" ]

\* the report of the catch block (server.js 185-194)
FailureReport(subtopics) ==
    [ overallScore     |-> Num(0),
      subtopicAnalysis |-> [i \in 1..Len(subtopics.items) |->
                              [ subtopic      |-> subtopics.items[i],
                                coverageScore |-> 0,
                                covered       |-> FALSE,
                                evidence      |-> FailedEvidence ]],
      summary          |-> "Failed to generate coverage analysis" ]

\* the try block from the LLM's outcome on (server.js 164-182); reading a
\* property of null, or calling .map on what is no array, throws a TypeError
TryBlock(llm) ==
    IF llm.kind # "text" THEN Thrown
    ELSE LET parsed == extractJson(llm.text)
         IN  IF parsed.threw \/ parsed.v.t # "arr" THEN Thrown
             ELSE IF \E i \in 1..Len(parsed.v.items) : parsed.v.items[i].t = "null"
                  THEN Thrown
             ELSE Returned(SuccessReport(
                     [i \in 1..Len(parsed.v.items) |-> NormalizeItem(parsed.v.items[i])]))

\* the catch block (server.js 183-195): subtopics.map exists on arrays only
CatchBlock(subtopics) ==
    IF subtopics.t = "arr" THEN Returned(FailureReport(subtopics)) ELSE Thrown

\* what analyzeCoverage gives its caller once callLLM has settled
AnalyzeOutcome(llm, subtopics) ==
    IF TryBlock(llm).threw THEN CatchBlock(subtopics) ELSE TryBlock(llm)

\* ------------------------------------------------------------------------
\* callLLM (server.js 120-129)
\* ------------------------------------------------------------------------
UpperCase == <<"A","B","C","D","E","F","G","H","I","J","K","L","M",
               "N","O","P","Q","R","S","T","U","V","W","X","Y","Z">>

LowerCase == <<"a","b","c","d","e","f","g","h","i","j","k","l","m",
               "n","o","p","q","r","s","t","u","v","w","x","y","z">>

LowerChar(c) ==
    IF \E i \in 1..26 : UpperCase[i] = c
    THEN LowerCase[CHOOSE i \in 1..26 : UpperCase[i] = c]
    ELSE c

toLowerCase(cs) == [i \in 1..Len(cs) |-> LowerChar(cs[i])]

Groq == <<"g","r","o","q">>

Gemini == <<"g","e","m","i","n","i">>

\* mutant: the switch has no default case, every name reaches a provider
DispatchesAnyName(provider) == provider.t = "str"

\* the switch reaches callGroq or callGemini; otherwise callLLM throws before
\* any request is sent (provider.toLowerCase is no function on a non-string)
Dispatches(provider) ==
    /\ provider.t = "str"
    /\ toLowerCase(provider.s) \in {Groq, Gemini}

\* ------------------------------------------------------------------------
\* Requests and the answers of the outside services
\* ------------------------------------------------------------------------
Id11 == <<"a","b","c","d","e","f","g","h","i","j","k">>

UrlWatch == <<"w","a","t","c","h","?","v","=">> \o Id11 \o <<"&","t","=","1">>

UrlBadId == <<"y","o","u","t","u",".","b","e","/","a","b","c">>

UrlNoMarker == <<"e","x","a","m","p","l","e">>

Urls == { Undefined, JStr(<<>>), JNum(50), JStr(UrlWatch),
          JStr(UrlBadId), JStr(UrlNoMarker) }

Topics == { Undefined, JStr(<<"t">>) }

\* the i-th subtopic name
Name(i) == JStr([k \in 1..i |-> "a"])

SubtopicList(n) == JArr([i \in 1..n |-> Name(i)])

SubtopicValues ==
    { Undefined, JNum(50), JStr(<<>>), JStr(<<"a","b">>) }
        \cup { SubtopicList(n) : n \in 0..MaxSubtopics }

Providers == { Undefined, JNull, JNum(50), JStr(Groq), JStr(<<"G","R","O","Q">>),
               JStr(Gemini), JStr(<<"o","p","e","n","a","i">>) }

Requests ==
    [ youtubeUrl : Urls, topic : Topics,
      customSubtopics : SubtopicValues, provider : Providers ]

\* customSubtopics?.length is truthy
TruthyLength(x) ==
    \/ x.t = "arr" /\ Len(x.items) > 0
    \/ x.t = "str" /\ Len(x.s) > 0

\* const { ..., provider = 'groq' } = req.body
ProviderOf(r) == IF r.provider.t = "undefined" THEN JStr(Groq) ELSE r.provider

\* a transcript, by its type and length
Tr(type, len, src) == [t |-> type, len |-> len, src |-> src]

NoTranscript == Tr("none", 0, "none")

TruncateAt == 10000

LiteralLen == 24

TranscriptOutcomes ==
    { [kind |-> "error", value |-> NoTranscript],
      [kind |-> "missing", value |-> NoTranscript] }
    \cup { [kind |-> "ok", value |-> Tr("str", 40, "transcript")],
           [kind |-> "ok", value |-> Tr("arr", 40, "transcript")],
           [kind |-> "ok", value |-> Tr("arr", TruncateAt + 1, "transcript")] }

MetadataOutcomes ==
    { [kind |-> "error", description |-> 0],
      [kind |-> "notfound", description |-> 0],
      [kind |-> "ok", description |-> 0],
      [kind |-> "ok", description |-> 40] }

\* items the LLM may put in its array
RawItems ==
    { JObj(Name(1), JNum(800), JStr(<<"e">>)),
      JObj(Name(2), JNum(499), Undefined),
      JObj(Name(1), JNum(1500), JStr(<<"e">>)),
      JObj(Name(2), JNum(0 - 50), JStr(<<"e">>)),
      JObj(Name(1), JStr(<<"7","5","%">>), JStr(<<"e">>)),
      JObj(Name(2), JStr(<<"h","i","g","h">>), JStr(<<>>)),
      JObj(Undefined, Undefined, Undefined),
      JStr(<<"x">>),
      JNull }

\* the text of an array of items
RECURSIVE CommaSeparated(_)
CommaSeparated(items) ==
    IF items = <<>> THEN <<>>
    ELSE IF Len(items) = 1 THEN <<TLit(items[1])>>
    ELSE <<TLit(items[1]), TComma>> \o CommaSeparated(Tail(items))

ArrayText(items) == <<TLb>> \o CommaSeparated(items) \o <<TRb>>

FencedJson(text) == <<TFenceJson, TWs>> \o text \o <<TWs, TFence>>

FencedBare(text) == <<TFence, TWs>> \o text \o <<TWs, TFence>>

AnObject == JObj(Name(1), JNum(800), JStr(<<"e">>))

LLMContents ==
    { ArrayText(items) : items \in SeqsUpTo(RawItems, MaxItems) }
    \cup { FencedJson(ArrayText(items)) : items \in SeqsUpTo(RawItems, 1) }
    \cup { <<>>, <<TWs>>, <<TJunk>>, <<TFence, TWs, TFence>>,
           <<TLit(AnObject)>>, <<TLit(JNull)>>, <<TLb, TLit(AnObject)>>,
           <<TJunk, TWs, TLb, TLit(AnObject), TRb, TWs, TJunk>> }

NoLLM == [kind |-> "none", text |-> <<>>]

\* callGroq and callGemini return the trimmed text, or throw
LLMOutcomes ==
    { [kind |-> "threw", text |-> <<>>] }
        \cup { [kind |-> "text", text |-> Trim(c)] : c \in LLMContents }

\* ------------------------------------------------------------------------
\* State
\* ------------------------------------------------------------------------
VARIABLES
    pc,          \* where the handler is: start, metadata, transcript,
                 \* fallback, llm (the awaits), done; json for extractJson alone
    req,         \* req.body
    videoId,     \* const videoId
    videoData,   \* const videoData: "none" or "fetched"
    trOutcome,   \* how the transcript endpoint answered getTranscript
    gt,          \* getTranscript: none, returned, threw:<whose error>
    fallbackDesc,\* length of the description getTranscript's catch fetched, -1 if none
    transcript,  \* const transcript
    llm,         \* how callLLM settled
    analysis,    \* how analyzeCoverage settled: [threw, v]
    calls,       \* the outbound calls, issued and completed, in order
    res,         \* the response: [status, cause]
    jin,         \* extractJson alone: the text
    jout         \* extractJson alone: its results on the text, bare and fenced

vars == <<pc, req, videoId, videoData, trOutcome, gt, fallbackDesc, transcript, llm,
          analysis, calls, res, jin, jout>>

NotRun == [threw |-> FALSE, v |-> Undefined]

NoResponse == [status |-> 0, cause |-> "none"]

NoJson == [plain |-> NotRun, json |-> NotRun, bare |-> NotRun]

Event(api, ev, by) == [api |-> api, ev |-> ev, by |-> by]

Init ==
    /\ pc = "start"
    /\ req \in Requests
    /\ videoId = NullId
    /\ videoData = "none"
    /\ trOutcome = "none"
    /\ gt = "none"
    /\ fallbackDesc = 0 - 1
    /\ transcript = NoTranscript
    /\ llm = NoLLM
    /\ analysis = NotRun
    /\ calls = <<>>
    /\ res = NoResponse
    /\ jin = <<>>
    /\ jout = NoJson

\* res.status(...).json(...) ends the request
Finish(status, cause) ==
    /\ res' = [status |-> status, cause |-> cause]
    /\ pc' = "done"

\* server.js 213-229 once analyzeCoverage has settled as an: a rejection goes
\* to the handler's catch; transcript.substring exists on strings only
Deliver(an, tr) ==
    IF an.threw THEN Finish(500, "analyzeCoverage")
    ELSE IF tr.t # "str" THEN Finish(500, "respond")
    ELSE Finish(200, "ok")

\* mutant: the description is returned even when empty
FallbackValueNoLiteral(description) == Tr("str", description, "description")

\* videoData.description || "No transcript available." (server.js 56)
FallbackValue(description) ==
    IF description = 0
    THEN Tr("str", LiteralLen, "literal")
    ELSE Tr("str", description, "description")

\* server.js 211-213 and 144-164: getTranscript has returned tr; analyzeCoverage
\* truncates it (substring exists on strings only), then calls callLLM; cs is
\* the call log so far
EnterAnalyze(tr, cs) ==
    /\ transcript' = tr
    /\ gt' = "returned"
    /\ IF tr.t # "str" /\ tr.len > TruncateAt
       THEN /\ analysis' = Thrown
            /\ llm' = llm
            /\ calls' = cs
            /\ Finish(500, "truncate")
       ELSE IF Dispatches(ProviderOf(req))
       THEN /\ calls' = Append(cs, Event("llm", "issue", "callLLM"))
            /\ pc' = "llm"
            /\ UNCHANGED <<llm, analysis, res>>
       ELSE /\ llm' = [kind |-> "notCalled", text |-> <<>>]
            /\ analysis' = AnalyzeOutcome([kind |-> "notCalled", text |-> <<>>],
                                          req.customSubtopics)
            /\ calls' = cs
            /\ Deliver(AnalyzeOutcome([kind |-> "notCalled", text |-> <<>>],
                                      req.customSubtopics), tr)

\* POST /api/analyze up to its first await (server.js 199-210)
HandleRequest ==
    /\ pc = "start"
    /\ IF \/ ~Truthy(req.youtubeUrl)
          \/ ~Truthy(req.topic)
          \/ ~TruthyLength(req.customSubtopics)
       THEN /\ Finish(400, "required")
            /\ UNCHANGED <<videoId, calls>>
       ELSE IF req.youtubeUrl.t # "str"
       THEN /\ Finish(500, "extractVideoId")
            /\ UNCHANGED <<videoId, calls>>
       ELSE IF extractVideoId(req.youtubeUrl.s) = NullId
       THEN /\ Finish(400, "invalidUrl")
            /\ UNCHANGED <<videoId, calls>>
       ELSE /\ videoId' = extractVideoId(req.youtubeUrl.s)
            /\ calls' = Append(calls, Event("metadata", "issue", "handler"))
            /\ pc' = "metadata"
            /\ res' = res
    /\ UNCHANGED <<req, videoData, trOutcome, gt, fallbackDesc, transcript, llm,
                   analysis, jin, jout>>

\* mutant: a failure of the handler's metadata call is swallowed
MetadataRespondsSwallows ==
    /\ pc = "metadata"
    /\ \E out \in MetadataOutcomes :
         /\ videoData' = "fetched"
         /\ calls' = calls \o << Event("metadata",
                                       IF out.kind = "ok" THEN "ok" ELSE "fail",
                                       "handler"),
                                 Event("transcript", "issue", "getTranscript") >>
         /\ pc' = "transcript"
         /\ res' = res
    /\ UNCHANGED <<req, videoId, trOutcome, gt, fallbackDesc, transcript, llm,
                   analysis, jin, jout>>

\* getYouTubeVideoData settles for the handler (server.js 210, 32-46), then
\* getTranscript sends its request (server.js 211, 51)
MetadataResponds ==
    /\ pc = "metadata"
    /\ \E out \in MetadataOutcomes :
         IF out.kind = "ok"
         THEN /\ videoData' = "fetched"
              /\ calls' = calls \o << Event("metadata", "ok", "handler"),
                                      Event("transcript", "issue", "getTranscript") >>
              /\ pc' = "transcript"
              /\ res' = res
         ELSE /\ videoData' = videoData
              /\ calls' = Append(calls, Event("metadata", "fail", "handler"))
              /\ Finish(500, "metadata")
    /\ UNCHANGED <<req, videoId, trOutcome, gt, fallbackDesc, transcript, llm,
                   analysis, jin, jout>>

\* the transcript endpoint settles (server.js 51-55)
TranscriptResponds ==
    /\ pc = "transcript"
    /\ \E out \in TranscriptOutcomes :
         /\ trOutcome' = out.kind
         /\ IF out.kind = "ok"
            THEN EnterAnalyze(out.value,
                              Append(calls, Event("transcript", "ok", "getTranscript")))
            ELSE /\ calls' = calls \o
                        << Event("transcript",
                                 IF out.kind = "error" THEN "fail" ELSE "ok",
                                 "getTranscript"),
                           Event("metadata", "issue", "getTranscript") >>
                 /\ pc' = "fallback"
                 /\ UNCHANGED <<gt, transcript, llm, analysis, res>>
    /\ UNCHANGED <<req, videoId, videoData, fallbackDesc, jin, jout>>

\* getYouTubeVideoData settles for getTranscript's catch (server.js 55-56)
FallbackResponds ==
    /\ pc = "fallback"
    /\ \E out \in MetadataOutcomes :
         IF out.kind = "ok"
         THEN /\ fallbackDesc' = out.description
              /\ EnterAnalyze(FallbackValue(out.description),
                              Append(calls, Event("metadata", "ok", "getTranscript")))
         ELSE /\ gt' = "threw:metadata"
              /\ fallbackDesc' = fallbackDesc
              /\ calls' = Append(calls, Event("metadata", "fail", "getTranscript"))
              /\ Finish(500, "getTranscript")
              /\ UNCHANGED <<transcript, llm, analysis>>
    /\ UNCHANGED <<req, videoId, videoData, trOutcome, jin, jout>>

\* callGroq or callGemini settles; analyzeCoverage and the handler run to the
\* response (server.js 164-195, 213-238)
LLMResponds ==
    /\ pc = "llm"
    /\ \E out \in LLMOutcomes :
         /\ llm' = out
         /\ analysis' = AnalyzeOutcome(out, req.customSubtopics)
         /\ calls' = Append(calls, Event("llm",
                                         IF out.kind = "threw" THEN "fail" ELSE "ok",
                                         "callLLM"))
         /\ Deliver(AnalyzeOutcome(out, req.customSubtopics), transcript)
    /\ UNCHANGED <<req, videoId, videoData, trOutcome, gt, fallbackDesc, transcript,
                   jin, jout>>

Next ==
    \/ HandleRequest
    \/ MetadataResponds
    \/ TranscriptResponds
    \/ FallbackResponds
    \/ LLMResponds

Spec == Init /\ [][Next]_vars

\* ------------------------------------------------------------------------
\* extractJson on its own: every text of at most MaxLen lexemes, bare and
\* wrapped in a Markdown code fence (the fence markers on lines of their own)
\* ------------------------------------------------------------------------
Alphabet == { TFenceJson, TFence, TWs, TLb, TRb, TComma, TJunk,
              TLit(AnObject), TLit(JNull) }

JsonInit ==
    /\ pc = "json"
    /\ req = [youtubeUrl |-> Undefined, topic |-> Undefined,
              customSubtopics |-> Undefined, provider |-> Undefined]
    /\ videoId = NullId
    /\ videoData = "none"
    /\ trOutcome = "none"
    /\ gt = "none"
    /\ fallbackDesc = 0 - 1
    /\ transcript = NoTranscript
    /\ llm = NoLLM
    /\ analysis = NotRun
    /\ calls = <<>>
    /\ res = NoResponse
    /\ jin \in SeqsUpTo(Alphabet, MaxLen)
    /\ jout = NoJson

JsonRest == <<pc, req, videoId, videoData, trOutcome, gt, fallbackDesc, transcript,
              llm, analysis, calls, res, jin>>

ExtractPlain ==
    /\ pc = "json"
    /\ jout.plain = NotRun
    /\ jout' = [jout EXCEPT !.plain = extractJson(jin)]
    /\ UNCHANGED JsonRest

ExtractFencedJson ==
    /\ pc = "json"
    /\ jout.json = NotRun
    /\ jout' = [jout EXCEPT !.json = extractJson(FencedJson(jin))]
    /\ UNCHANGED JsonRest

ExtractFencedBare ==
    /\ pc = "json"
    /\ jout.bare = NotRun
    /\ jout' = [jout EXCEPT !.bare = extractJson(FencedBare(jin))]
    /\ UNCHANGED JsonRest

JsonNext == ExtractPlain \/ ExtractFencedJson \/ ExtractFencedBare

SpecJson == JsonInit /\ [][JsonNext]_vars

\* ------------------------------------------------------------------------
\* Properties
\* ------------------------------------------------------------------------
\* analyzeCoverage has returned a report
AnalysisReturned == analysis # NotRun /\ ~analysis.threw

\* an is the report of the failure path for the subtopic list subs
IsZeroReport(an, subs) ==
    /\ an # NotRun
    /\ ~an.threw
    /\ an.v.overallScore = Num(0)
    /\ Len(an.v.subtopicAnalysis) = Len(subs.items)
    /\ \A i \in 1..Len(subs.items) :
         /\ an.v.subtopicAnalysis[i].subtopic = subs.items[i]
         /\ an.v.subtopicAnalysis[i].coverageScore = 0
         /\ an.v.subtopicAnalysis[i].covered = FALSE
         /\ an.v.subtopicAnalysis[i].evidence = FailedEvidence

\* C1, as stated: for a subtopic list of length N, when the provider call
\* throws or the provider name is not exactly 'groq' or 'gemini',
\* analyzeCoverage returns overallScore 0 and N zero-scored, uncovered items
\* carrying the requested subtopics and the failure evidence.
C1_Original ==
    ( /\ pc = "done"
      /\ llm.kind # "none"
      /\ req.customSubtopics.t = "arr"
      /\ \/ llm.kind = "threw"
         \/ ProviderOf(req) \notin {JStr(Groq), JStr(Gemini)} )
    => IsZeroReport(analysis, req.customSubtopics)

\* C1, amended: the same, where the provider name counts as unknown when it
\* is no string or, lower-cased, is neither 'groq' nor 'gemini'.
C1_FailureReport ==
    ( /\ pc = "done"
      /\ llm.kind # "none"
      /\ req.customSubtopics.t = "arr"
      /\ \/ llm.kind = "threw"
         \/ ProviderOf(req).t # "str"
         \/ toLowerCase(ProviderOf(req).s) \notin {Groq, Gemini} )
    => IsZeroReport(analysis, req.customSubtopics)

C1_Witness ==
    /\ pc = "done"
    /\ llm.kind = "threw"
    /\ req.customSubtopics = SubtopicList(2)
    /\ IsZeroReport(analysis, req.customSubtopics)

\* C2: analyzeCoverage never throws to its caller, whatever subtopics value
\* with a truthy length the handler passes it and however the LLM answers
\* (stated for string transcripts).
C2_Original == ~(transcript.t = "str" /\ analysis.threw)

\* C3: once validation, the metadata fetch and the transcript fetch have
\* succeeded (with a string transcript), every outcome of the LLM step ends
\* in a 200 response.
C3_Original ==
    (pc = "done" /\ llm.kind # "none" /\ transcript.t = "str") => res.status = 200

\* C4: a request is validated before any outbound call: with a missing or
\* empty youtubeUrl or topic, no subtopic, or a URL without an 11-character
\* identifier, no call is ever issued and the response is 400; and a 400 is
\* given for these inputs only.
C4_NoSubtopics ==
    \/ req.customSubtopics.t \notin {"arr", "str"}
    \/ req.customSubtopics.t = "arr" /\ req.customSubtopics.items = <<>>
    \/ req.customSubtopics.t = "str" /\ req.customSubtopics.s = <<>>

C4_BadInput ==
    \/ ~Truthy(req.youtubeUrl)
    \/ ~Truthy(req.topic)
    \/ C4_NoSubtopics
    \/ req.youtubeUrl \in {JStr(UrlBadId), JStr(UrlNoMarker)}

C4_ValidatedBeforeCalls ==
    pc # "json" =>
        /\ C4_BadInput => calls = <<>> /\ (pc = "done" => res.status = 400)
        /\ res.status = 400 => C4_BadInput

C4_Witness ==
    /\ pc = "done"
    /\ res.status = 400
    /\ req.youtubeUrl = JStr(UrlBadId)
    /\ Truthy(req.topic)
    /\ ~C4_NoSubtopics

CalledBy(api, by) == \E i \in 1..Len(calls) : calls[i] = Event(api, "issue", by)

\* C5, as stated: whenever the transcript endpoint fails or gives no
\* transcript, getTranscript returns the description or the literal.
C5_Original ==
    (gt # "none" /\ trOutcome \in {"error", "missing"})
    => gt = "returned" /\ transcript.src \in {"description", "literal"}

\* C5, amended: the error of the transcript endpoint is never propagated; on
\* its failure getTranscript calls the metadata fetcher and, when that call
\* succeeds, returns the description, or the literal when the description is
\* empty; when that call fails its error is what getTranscript throws.  When
\* the endpoint gives a transcript, that transcript is returned and
\* getTranscript makes no metadata call.
C5_Fallback ==
    /\ gt # "threw:transcript"
    /\ (gt # "none" /\ trOutcome \in {"error", "missing"}) =>
          /\ CalledBy("metadata", "getTranscript")
          /\ gt = "returned" =>
                /\ calls[Len(calls)] # Event("metadata", "fail", "getTranscript")
                /\ transcript.src \in {"description", "literal"}
                /\ transcript.src = "literal" <=> fallbackDesc = 0
                /\ transcript.src = "description" => transcript.len = fallbackDesc
          /\ gt # "returned" =>
                /\ gt = "threw:metadata"
                /\ calls[Len(calls)] = Event("metadata", "fail", "getTranscript")
    /\ (gt # "none" /\ trOutcome = "ok") =>
          /\ gt = "returned"
          /\ transcript.src = "transcript"
          /\ ~CalledBy("metadata", "getTranscript")

C5_Witness ==
    /\ gt = "returned"
    /\ trOutcome = "error"
    /\ transcript.src = "literal"
    /\ CalledBy("metadata", "getTranscript")

\* what extractJson makes of the LLM's text
ParsedText == extractJson(llm.text).v

\* C6: when the LLM's text parses to an array of N >= 1 objects, the report
\* has N items in the LLM's order and overallScore is the mean of the
\* normalized scores rounded to the nearest integer (a tie upward), in 0..100.
C6_RoundedMean ==
    ( /\ pc = "done"
      /\ llm.kind = "text"
      /\ ParsedText.t = "arr"
      /\ Len(ParsedText.items) >= 1
      /\ \A i \in 1..Len(ParsedText.items) : ParsedText.items[i].t = "obj" )
    => /\ AnalysisReturned
       /\ LET items == analysis.v.subtopicAnalysis
              n     == Len(ParsedText.items)
              sum   == SumSeq([i \in 1..Len(items) |-> items[i].coverageScore])
              score == analysis.v.overallScore
          IN  /\ Len(items) = n
              /\ \A i \in 1..n : items[i].subtopic = ParsedText.items[i].subtopic
              /\ ~score.nan
              /\ score.v \in 0..100
              /\ 2 * n * score.v <= 2 * sum + n
              /\ 2 * sum + n < 2 * n * score.v + 2 * n

C6_Witness ==
    /\ pc = "done"
    /\ llm.kind = "text"
    /\ AnalysisReturned
    /\ req.customSubtopics = SubtopicList(2)
    /\ Len(analysis.v.subtopicAnalysis) = 2
    /\ analysis.v.subtopicAnalysis[1].coverageScore = 80
    /\ analysis.v.subtopicAnalysis[2].coverageScore = 75
    /\ analysis.v.overallScore = Num(78)

\* C7: every report analyzeCoverage returns has an integer overallScore in
\* 0..100, and an LLM answer that normalizes to zero items gives the report
\* of the failure path.
C7_Original ==
    /\ AnalysisReturned =>
          /\ ~analysis.v.overallScore.nan
          /\ analysis.v.overallScore.v \in 0..100
    /\ ( /\ pc = "done"
         /\ llm.kind = "text"
         /\ req.customSubtopics.t = "arr"
         /\ ParsedText = EmptyArr )
       => IsZeroReport(analysis, req.customSubtopics)

\* C8: in every report analyzeCoverage returns, every item has an integer
\* coverageScore in 0..100 and covered = (coverageScore >= 50).
C8_ItemInvariant ==
    AnalysisReturned =>
        \A i \in 1..Len(analysis.v.subtopicAnalysis) :
            /\ analysis.v.subtopicAnalysis[i].coverageScore \in 0..100
            /\ analysis.v.subtopicAnalysis[i].covered
                   = (analysis.v.subtopicAnalysis[i].coverageScore >= 50)

C8_Witness ==
    /\ llm.kind = "text"
    /\ AnalysisReturned
    /\ Len(analysis.v.subtopicAnalysis) = 2
    /\ analysis.v.subtopicAnalysis[1].coverageScore = 100
    /\ analysis.v.subtopicAnalysis[1].covered
    /\ analysis.v.subtopicAnalysis[2].coverageScore = 49
    /\ ~analysis.v.subtopicAnalysis[2].covered

\* both parses of extractJson fail on the text
BothParsesFail(text) ==
    /\ ~JSONparse(Cleaned(text)).ok
    /\ \/ MatchStarts(Cleaned(text)) = {}
       \/ ~JSONparse(RegexMatch(Cleaned(text))).ok

\* C9: extractJson gives the same value for a text and for that text inside
\* a ```json or a ``` fence; it never throws, and gives the empty sequence
\* when the text is empty after stripping or when both parses fail.
C9_FenceEquivalence ==
    /\ (jout.plain # NotRun /\ jout.json # NotRun) => jout.json = jout.plain
    /\ (jout.plain # NotRun /\ jout.bare # NotRun) => jout.bare = jout.plain
    /\ ~jout.plain.threw /\ ~jout.json.threw /\ ~jout.bare.threw
    /\ (jout.plain # NotRun /\ (Cleaned(jin) = <<>> \/ BothParsesFail(jin)))
          => jout.plain.v = EmptyArr

C9_Witness ==
    /\ jin = <<TLb, TLit(AnObject), TRb>>
    /\ jout.plain = Returned(JArr(<<AnObject>>))
    /\ jout.json = jout.plain
    /\ jout.bare = jout.plain

\* place of a call in the chain metadata -> transcript -> (metadata) -> LLM
Rank(e) ==
    IF e.api = "metadata" /\ e.by = "handler" THEN 1
    ELSE IF e.api = "transcript" THEN 2
    ELSE IF e.api = "metadata" THEN 3
    ELSE 4

\* C10: the outbound calls of a request are issued one after the other, each
\* after the previous one has completed, in the order metadata, transcript,
\* LLM; none is issued twice; and a failed metadata call of the handler is
\* the last call of the request, which ends with a 500.
C10_SequentialChain ==
    /\ \A i \in 1..Len(calls) : (i % 2 = 1) <=> (calls[i].ev = "issue")
    /\ \A i \in 1..Len(calls) :
          i % 2 = 0 => /\ calls[i].api = calls[i - 1].api
                       /\ calls[i].by = calls[i - 1].by
    /\ \A i, j \in 1..Len(calls) :
          (i < j /\ calls[i].ev = "issue" /\ calls[j].ev = "issue")
              => Rank(calls[i]) < Rank(calls[j])
    /\ \A i \in 1..Len(calls) :
          (calls[i].ev = "fail" /\ i < Len(calls)) => calls[i].api = "transcript"
    /\ (\E i \in 1..Len(calls) : calls[i] = Event("metadata", "fail", "handler"))
          => /\ Len(calls) = 2
             /\ pc = "done"
             /\ res.status = 500
    /\ pc = "done" => Len(calls) % 2 = 0

C10_Witness ==
    /\ pc = "done"
    /\ res.status = 200
    /\ Len(calls) = 8
    /\ calls[8] = Event("llm", "ok", "callLLM")

====
